---- MODULE Spec2Model ----
(***************************************************************************)
(* Model of the store registry service of src/api.py: a JSON file holding  *)
(* the whole collection of store records, rewritten by every handler, with *)
(* soft delete, restore and a timed purge run by the read handlers.        *)
(*                                                                         *)
(* Values.  A Python value of type `str | None` is a record [kind, v]:     *)
(*   kind "None"  : None                                                   *)
(*   kind "empty" : the empty string                                       *)
(*   kind "time"  : the string strftime("%Y-%m-%d %H:%M:%S") writes for    *)
(*                  the whole second v                                     *)
(*   kind "text"  : a non-empty string that strptime rejects (number v)    *)
(* The clock counts ticks; a second has TicksPerSec ticks, so that         *)
(* datetime.now() carries a sub-second part that strftime drops.  `now` is *)
(* the last value datetime.now() returned.                                 *)
(* `req`, `resp` and `before` record the last request served, its response *)
(* and the collection the handler loaded.  `content` tells whether the     *)
(* data file holds one JSON text ("whole", the collection `disk`), nothing *)
(* ("empty") or the overlay of two texts ("torn"); `proc` is the state of  *)
(* the threads that serve requests concurrently.                           *)
(***************************************************************************)
EXTENDS Integers, Sequences, FiniteSets, TLC

VARIABLES now, exists, disk, req, resp, before, content, proc

vars == <<now, exists, disk, req, resp, before, content, proc>>

(***************************************************************************)
(* Bounds of the model                                                     *)
(***************************************************************************)
TicksPerSec == 2

(***************************************************************************)
(* Program constants                                                       *)
(***************************************************************************)
PURGE_MONTHS == 6
DaysPerMonth == 30
SecondsPerDay == 86400

DayTicks == SecondsPerDay * TicksPerSec
PurgeTicks == PURGE_MONTHS * DaysPerMonth * DayTicks

(***************************************************************************)
(* Values                                                                  *)
(***************************************************************************)
None == [kind |-> "None", v |-> 0]
Empty == [kind |-> "empty", v |-> 0]
Time(s) == [kind |-> "time", v |-> s]
Text(i) == [kind |-> "text", v |-> i]

\* Python truthiness of a str | None value: `if x` / `if not x`
Truthy(x) == x.kind \in {"time", "text"}

\* datetime.strftime("%Y-%m-%d %H:%M:%S") of the instant t (in ticks)
strftime(t) == Time(t \div TicksPerSec)

\* datetime.strptime(x, "%Y-%m-%d %H:%M:%S"): does it parse, and to what instant
Parses(x) == x.kind = "time"
strptime(x) == x.v * TicksPerSec

\* order of Python strings: "" first, then timestamps (digits), then text
StrRank(x) == IF x.kind = "empty" THEN 0 ELSE IF x.kind = "time" THEN 1 ELSE 2
StrLess(x, y) ==
    \/ StrRank(x) < StrRank(y)
    \/ StrRank(x) = StrRank(y) /\ x.v < y.v

(***************************************************************************)
(* Inputs                                                                  *)
(***************************************************************************)
CafeA == Text(1)
Seoul == Text(3)
Busan == Text(4)

\* the instants the clock is read at: the start of day 0 and the sub-second
\* ticks after it, the start of day 1, and the starts of the days one purge
\* period after day 0 and after day 1
PurgeDays == PURGE_MONTHS * DaysPerMonth
DayMarks == {0, 1, PurgeDays, PurgeDays + 1}
Instants ==
    {d * DayTicks : d \in DayMarks} \cup {e : e \in 1..(TicksPerSec - 1)}

\* request bodies of class Store: the optional fields all left out, or filled
\* in, with a createdAt / deletedAt the client chose
Variants ==
    { [lat |-> None, lng |-> None, address |-> None, kakaoOpenChat |-> None,
       phoneNumber |-> None, createdAt |-> None, deletedAt |-> None],
      [lat |-> Text(5), lng |-> Text(6), address |-> Text(7), kakaoOpenChat |-> Empty,
       phoneNumber |-> None, createdAt |-> Time(SecondsPerDay), deletedAt |-> Time(0)] }

\* the keys the clients use
Keys == {<<CafeA, Seoul>>, <<CafeA, Busan>>}

Store ==
    { [name |-> k[1], region |-> k[2], lat |-> p.lat, lng |-> p.lng, address |-> p.address,
       kakaoOpenChat |-> p.kakaoOpenChat, phoneNumber |-> p.phoneNumber,
       createdAt |-> p.createdAt, deletedAt |-> p.deletedAt] :
         k \in Keys, p \in Variants }

DeleteReq == { [name |-> k[1], region |-> k[2]] : k \in Keys }

NoArg == [none |-> TRUE]

(***************************************************************************)
(* File IO                                                                 *)
(***************************************************************************)
load_data == IF ~exists THEN <<>> ELSE disk

\* save_data(data) as an atomic step: the file exists and holds data
save_data(data) == exists' = TRUE /\ disk' = data

\* normalize: None -> ""
normalize(store) ==
    [k \in DOMAIN store |-> IF store[k] = None THEN Empty ELSE store[k]]

(***************************************************************************)
(* purge_expired                                                           *)
(***************************************************************************)
\* variant: a record is kept up to and including the 180th day
KeepsInclusive(s, t) ==
    IF ~Truthy(s.deletedAt) THEN TRUE
    ELSE IF ~Parses(s.deletedAt) THEN TRUE
    ELSE t - strptime(s.deletedAt) <= PurgeTicks

\* variant: no record is ever dropped
KeepsAlways(s, t) == TRUE

\* the loop body's decision for one record at the instant t
Keeps(s, t) ==
    IF ~Truthy(s.deletedAt) THEN TRUE
    ELSE IF ~Parses(s.deletedAt) THEN TRUE
    ELSE t - strptime(s.deletedAt) < PurgeTicks

\* variant: kept is built by inserting at the front
RECURSIVE KeptReversed(_, _)
KeptReversed(data, t) ==
    IF data = <<>> THEN <<>>
    ELSE IF Keeps(Head(data), t) THEN KeptReversed(Tail(data), t) \o <<Head(data)>>
    ELSE KeptReversed(Tail(data), t)

RECURSIVE Kept(_, _)
Kept(data, t) ==
    IF data = <<>> THEN <<>>
    ELSE IF Keeps(Head(data), t) THEN <<Head(data)>> \o Kept(Tail(data), t)
    ELSE Kept(Tail(data), t)

\* variant: the purge drops every trashed record, whatever its age
purge_trashed(data, t) == SelectSeq(data, LAMBDA s : ~Truthy(s.deletedAt))

\* variant: the expired records are removed from data while the loop runs over
\* it, so the record after a removed one is skipped
RECURSIVE RemoveWhileIterating(_, _, _)
RemoveWhileIterating(data, i, t) ==
    IF i > Len(data) THEN data
    ELSE IF Keeps(data[i], t) THEN RemoveWhileIterating(data, i + 1, t)
    ELSE RemoveWhileIterating(SubSeq(data, 1, i - 1) \o SubSeq(data, i + 1, Len(data)),
                              i + 1, t)

purge_in_place(data, t) == RemoveWhileIterating(data, 1, t)

\* the value purge_expired(data) returns and saves, when run at t
purge_expired(data, t) == Kept(data, t)

(***************************************************************************)
(* Helpers of the handlers                                                 *)
(***************************************************************************)
\* s["name"] == x.name and s["region"] == x.region
SameKey(s, x) == s.name = x.name /\ s.region = x.region

\* index of the first record of data with the key of x, 0 if there is none
FirstIndex(data, x) ==
    IF \E i \in 1..Len(data) : SameKey(data[i], x)
    THEN CHOOSE i \in 1..Len(data) :
            /\ SameKey(data[i], x)
            /\ \A j \in 1..(i - 1) : ~SameKey(data[j], x)
    ELSE 0

\* variant: no filter on deletedAt
Unfiltered(data) == data

\* [s for s in data if not s.get("deletedAt")]
RECURSIVE Active(_)
Active(data) ==
    IF data = <<>> THEN <<>>
    ELSE IF ~Truthy(Head(data).deletedAt) THEN <<Head(data)>> \o Active(Tail(data))
    ELSE Active(Tail(data))

\* [s for s in data if s.get("deletedAt")]
RECURSIVE Trashed(_)
Trashed(data) ==
    IF data = <<>> THEN <<>>
    ELSE IF Truthy(Head(data).deletedAt) THEN <<Head(data)>> \o Trashed(Tail(data))
    ELSE Trashed(Tail(data))

\* sorted(data, key=lambda x: x.get(field, ""), reverse=True): a stable sort,
\* records with equal keys keep their order
RECURSIVE InsertDesc(_, _, _)
InsertDesc(sorted, x, field) ==
    IF sorted = <<>> THEN <<x>>
    ELSE IF StrLess(Head(sorted)[field], x[field]) THEN <<x>> \o sorted
    ELSE <<Head(sorted)>> \o InsertDesc(Tail(sorted), x, field)

RECURSIVE SortedDesc(_, _)
SortedDesc(data, field) ==
    IF data = <<>> THEN <<>>
    ELSE InsertDesc(SortedDesc(SubSeq(data, 1, Len(data) - 1), field),
                    data[Len(data)], field)

\* variant: the duplicate check skips the trashed records
ConflictAmongActive(data, store) ==
    \E i \in 1..Len(data) : SameKey(data[i], store) /\ ~Truthy(data[i].deletedAt)

\* variant: the duplicate check looks at the first record only
ConflictWithFirst(data, store) == data # <<>> /\ SameKey(data[1], store)

\* add_store: the duplicate check against the loaded collection
Conflict(data, store) == \E i \in 1..Len(data) : SameKey(data[i], store)

\* variant: the deletedAt of the request is kept
NewRecordKeepsDeletedAt(store, t) ==
    LET stamped == IF ~Truthy(store.createdAt)
                   THEN [store EXCEPT !.createdAt = strftime(t)]
                   ELSE store
    IN normalize(stamped)

\* variant: a missing createdAt is not filled in
NewRecordUnstamped(store, t) == normalize([store EXCEPT !.deletedAt = None])

\* add_store: the record appended for the request, t being datetime.now()
NewRecord(store, t) ==
    LET stamped == IF ~Truthy(store.createdAt)
                   THEN [store EXCEPT !.createdAt = strftime(t)]
                   ELSE store
    IN normalize([stamped EXCEPT !.deletedAt = None])

\* variant: createdAt and deletedAt are taken from the request
ReplacedByRequest(store, s) == normalize(store)

\* update_store: the record that replaces the stored record s
Replaced(store, s) ==
    normalize([store EXCEPT !.createdAt = s.createdAt, !.deletedAt = s.deletedAt])

\* variant: a trashed record is soft-deleted again
NeverTrashed(s) == FALSE

\* delete_store: `if s.get("deletedAt")`
AlreadyTrashed(s) == Truthy(s.deletedAt)

\* variant: only a null deletedAt counts as not trashed
NotTrashedIfNull(s) == s.deletedAt = None

\* variant: a record trashed a purge period ago or more cannot be restored
NotTrashedOrOld(s) ==
    \/ ~Truthy(s.deletedAt)
    \/ Parses(s.deletedAt) /\ now - strptime(s.deletedAt) >= PurgeTicks

\* restore_store: `if not s.get("deletedAt")`
NotTrashed(s) == ~Truthy(s.deletedAt)

\* [normalize(s) for s in data]
NormalizeAll(data) == [i \in 1..Len(data) |-> normalize(data[i])]

\* df.reindex(columns=cols): the columns of the sheet
Cols == {"name", "region", "lat", "lng", "address", "kakaoOpenChat", "phoneNumber",
         "createdAt"}
Sheet(data) == [i \in 1..Len(data) |-> [c \in Cols |-> data[i][c]]]

\* responses
Ok(status, count, items) == [code |-> 200, status |-> status, count |-> count, items |-> items]
HTTPException(code) == [code |-> code, status |-> "error", count |-> 0, items |-> <<>>]

\* a thread of the pool that is serving no request
Idle == [pc |-> "idle", op |-> "none", arg |-> NoArg, snap |-> <<>>, data |-> <<>>, code |-> 0]

\* the threads of the pool that serves the requests
Procs == {"w1", "w2"}

(***************************************************************************)
(* Initial state: no data file, no request served yet                      *)
(***************************************************************************)
Init ==
    /\ now = 0
    /\ exists = FALSE
    /\ disk = <<>>
    /\ req = [op |-> "none", arg |-> NoArg]
    /\ resp = Ok("none", 0, <<>>)
    /\ before = <<>>
    /\ content = "whole"
    /\ proc = [p \in Procs |-> Idle]

(***************************************************************************)
(* GET /api/stores; t is the value of datetime.now() in purge_expired      *)
(***************************************************************************)
get_stores(t) ==
    LET loaded == load_data
        data == purge_expired(loaded, t)
    IN /\ now' = t
       /\ save_data(data)
       /\ req' = [op |-> "list", arg |-> NoArg]
       /\ UNCHANGED <<content, proc>>
       /\ resp' = Ok("list", 0, NormalizeAll(Active(data)))
       /\ before' = loaded

(***************************************************************************)
(* POST /admin/add; t is the value of datetime.now(), read when the        *)
(* request has no createdAt                                                *)
(***************************************************************************)
add_store(store, t) ==
    LET data == load_data
        added == Append(data, NewRecord(store, t))
    IN /\ req' = [op |-> "add", arg |-> store]
       /\ UNCHANGED <<content, proc>>
       /\ before' = data
       /\ IF Conflict(data, store)
          THEN /\ resp' = HTTPException(400)
               /\ UNCHANGED <<now, exists, disk>>
          ELSE /\ now' = IF ~Truthy(store.createdAt) THEN t ELSE now
               /\ save_data(added)
               /\ resp' = Ok("added", Len(added), <<>>)

(***************************************************************************)
(* PUT /admin/update                                                       *)
(***************************************************************************)
update_store(store) ==
    LET data == load_data
        i == FirstIndex(data, store)
    IN /\ req' = [op |-> "update", arg |-> store]
       /\ UNCHANGED <<content, proc>>
       /\ before' = data
       /\ UNCHANGED now
       /\ IF i = 0
          THEN /\ resp' = HTTPException(404)
               /\ UNCHANGED <<exists, disk>>
          ELSE /\ save_data([data EXCEPT ![i] = Replaced(store, data[i])])
               /\ resp' = Ok("updated", 0, <<>>)

(***************************************************************************)
(* POST /admin/delete; t is the value of datetime.now()                    *)
(***************************************************************************)
delete_store(r, t) ==
    LET data == load_data
        i == FirstIndex(data, r)
    IN /\ req' = [op |-> "delete", arg |-> r]
       /\ UNCHANGED <<content, proc>>
       /\ before' = data
       /\ IF i = 0
          THEN /\ resp' = HTTPException(404)
               /\ UNCHANGED <<now, exists, disk>>
          ELSE IF AlreadyTrashed(data[i])
          THEN /\ resp' = HTTPException(400)
               /\ UNCHANGED <<now, exists, disk>>
          ELSE /\ now' = t
               /\ save_data([data EXCEPT ![i].deletedAt = strftime(t)])
               /\ resp' = Ok("soft-deleted", 0, <<>>)

(***************************************************************************)
(* POST /admin/restore                                                     *)
(***************************************************************************)
restore_store(r) ==
    LET data == load_data
        i == FirstIndex(data, r)
    IN /\ req' = [op |-> "restore", arg |-> r]
       /\ UNCHANGED <<content, proc>>
       /\ before' = data
       /\ UNCHANGED now
       /\ IF i = 0
          THEN /\ resp' = HTTPException(404)
               /\ UNCHANGED <<exists, disk>>
          ELSE IF NotTrashed(data[i])
          THEN /\ resp' = HTTPException(400)
               /\ UNCHANGED <<exists, disk>>
          ELSE /\ save_data([data EXCEPT ![i].deletedAt = None])
               /\ resp' = Ok("restored", 0, <<>>)

(***************************************************************************)
(* GET /admin/trash; t is the value of datetime.now() in purge_expired     *)
(***************************************************************************)
get_trash(t) ==
    LET loaded == load_data
        data == purge_expired(loaded, t)
    IN /\ now' = t
       /\ save_data(data)
       /\ req' = [op |-> "trash", arg |-> NoArg]
       /\ UNCHANGED <<content, proc>>
       /\ resp' = Ok("trash", 0, SortedDesc(Trashed(data), "deletedAt"))
       /\ before' = loaded

(***************************************************************************)
(* GET /admin/export/excel; t is the value of datetime.now() in            *)
(* purge_expired                                                           *)
(***************************************************************************)
export_excel(t) ==
    LET loaded == load_data
        purged == purge_expired(loaded, t)
        data == Active(purged)
    IN /\ now' = t
       /\ save_data(purged)
       /\ req' = [op |-> "export", arg |-> NoArg]
       /\ UNCHANGED <<content, proc>>
       /\ before' = loaded
       /\ IF data = <<>>
          THEN resp' = HTTPException(404)
          ELSE resp' = Ok("export", 0, Sheet(SortedDesc(data, "createdAt")))

(***************************************************************************)
(* One request at a time; the clock never runs backwards                   *)
(***************************************************************************)
Clock == {t \in Instants : t >= now}

Next ==
    \/ \E t \in Clock : get_stores(t)
    \/ \E store \in Store, t \in Clock : add_store(store, t)
    \/ \E store \in Store : update_store(store)
    \/ \E r \in DeleteReq, t \in Clock : delete_store(r, t)
    \/ \E r \in DeleteReq : restore_store(r)
    \/ \E t \in Clock : get_trash(t)
    \/ \E t \in Clock : export_excel(t)

Spec == Init /\ [][Next]_vars

(***************************************************************************)
(* The service started on a data file that is already there: empty, or     *)
(* holding a trashed record whose deletedAt is not a timestamp             *)
(***************************************************************************)
Legacy ==
    [name |-> CafeA, region |-> Seoul, lat |-> Empty, lng |-> Empty, address |-> Empty,
     kakaoOpenChat |-> Empty, phoneNumber |-> Empty, createdAt |-> Time(0),
     deletedAt |-> Text(8)]

Files == {<<>>, <<Legacy>>}

InitFile ==
    /\ now = 0
    /\ exists = TRUE
    /\ disk \in Files
    /\ req = [op |-> "none", arg |-> NoArg]
    /\ resp = Ok("none", 0, <<>>)
    /\ before = disk
    /\ content = "whole"
    /\ proc = [p \in Procs |-> Idle]

SpecFile == InitFile /\ [][Next]_vars

(***************************************************************************)
(* Time keeps advancing and read operations keep being called: a List, a   *)
(* Trash List or an Export at the last instant is always served again      *)
(***************************************************************************)
LastInstant == (PurgeDays + 1) * DayTicks

LateRead ==
    \/ get_stores(LastInstant)
    \/ get_trash(LastInstant)
    \/ export_excel(LastInstant)

\* the requests of this specification leave the optional fields out
StoreLive == {store \in Store : store.createdAt = None}

\* the clock is read on day 1 and at the last instant
ClockLive == {t \in {DayTicks, LastInstant} : t >= now}

NextLive ==
    \/ \E t \in ClockLive : get_stores(t)
    \/ \E store \in StoreLive, t \in ClockLive : add_store(store, t)
    \/ \E store \in StoreLive : update_store(store)
    \/ \E r \in DeleteReq, t \in ClockLive : delete_store(r, t)
    \/ \E r \in DeleteReq : restore_store(r)
    \/ \E t \in ClockLive : get_trash(t)
    \/ \E t \in ClockLive : export_excel(t)

SpecLive == Init /\ [][NextLive]_vars /\ WF_vars(LateRead)

(***************************************************************************)
(* Requests served concurrently.  The handlers are plain `def` functions,  *)
(* which FastAPI runs on the threads of a pool; the threads share the      *)
(* data file and the clock, and nothing else.  A request loads the file,   *)
(* computes its outcome on the loaded collection, reading the clock where  *)
(* its handler does, and saves: save_data opens the file for writing,      *)
(* which truncates it, and the JSON text reaches the file when the file    *)
(* is closed.                                                              *)
(***************************************************************************)
Requests ==
    [op : {"add", "update"}, arg : StoreLive]
        \cup [op : {"delete", "restore"}, arg : DeleteReq]
        \cup [op : {"list", "trash", "export"}, arg : {NoArg}]

\* the handler raised before save_data
Raised(code) == [saves |-> FALSE, out |-> <<>>, code |-> code, clock |-> FALSE]

\* the handler calls save_data(out) and then answers with code; clock tells
\* whether it called datetime.now()
Saves(out, code, clock) == [saves |-> TRUE, out |-> out, code |-> code, clock |-> clock]

\* what the handler of op does with the collection data it loaded, t being
\* the value of datetime.now()
Outcome(op, arg, data, t) ==
    CASE op = "add" ->
            IF Conflict(data, arg) THEN Raised(400)
            ELSE Saves(Append(data, NewRecord(arg, t)), 200, ~Truthy(arg.createdAt))
      [] op = "update" ->
            LET i == FirstIndex(data, arg)
            IN IF i = 0 THEN Raised(404)
               ELSE Saves([data EXCEPT ![i] = Replaced(arg, data[i])], 200, FALSE)
      [] op = "delete" ->
            LET i == FirstIndex(data, arg)
            IN IF i = 0 THEN Raised(404)
               ELSE IF AlreadyTrashed(data[i]) THEN Raised(400)
               ELSE Saves([data EXCEPT ![i].deletedAt = strftime(t)], 200, TRUE)
      [] op = "restore" ->
            LET i == FirstIndex(data, arg)
            IN IF i = 0 THEN Raised(404)
               ELSE IF NotTrashed(data[i]) THEN Raised(400)
               ELSE Saves([data EXCEPT ![i].deletedAt = None], 200, FALSE)
      [] op \in {"list", "trash"} -> Saves(purge_expired(data, t), 200, TRUE)
      [] op = "export" ->
            LET purged == purge_expired(data, t)
            IN Saves(purged, IF Active(purged) = <<>> THEN 404 ELSE 200, TRUE)

\* the thread p takes the request r and runs load_data; json.load raises on a
\* file that does not hold one JSON text and the request ends with a 500.
\* `snap` keeps the collection loaded, `data` is the handler's variable
Load(p, r) ==
    /\ proc[p].pc = "idle"
    /\ IF exists /\ content # "whole"
       THEN proc' = [proc EXCEPT ![p] = [pc |-> "failed", op |-> r.op, arg |-> r.arg,
                                         snap |-> <<>>, data |-> <<>>, code |-> 500]]
       ELSE proc' = [proc EXCEPT ![p] = [pc |-> "loaded", op |-> r.op, arg |-> r.arg,
                                         snap |-> load_data, data |-> load_data,
                                         code |-> 0]]
    /\ UNCHANGED <<now, exists, disk, content, req, resp, before>>

\* the handler's computation between load_data and save_data; a handler that
\* raises ends there, its request failed
Handle(p, t) ==
    /\ proc[p].pc = "loaded"
    /\ LET o == Outcome(proc[p].op, proc[p].arg, proc[p].data, t)
       IN /\ now' = IF o.clock THEN t ELSE now
          /\ proc' = [proc EXCEPT ![p] =
                        IF o.saves
                        THEN [@ EXCEPT !.pc = "handled", !.data = o.out, !.code = o.code]
                        ELSE [@ EXCEPT !.pc = "failed", !.code = o.code]]
    /\ UNCHANGED <<exists, disk, content, req, resp, before>>

\* save_data: open(DATA_FILE, "w") creates the file or truncates it
Open(p) ==
    /\ proc[p].pc = "handled"
    /\ exists' = TRUE
    /\ content' = "empty"
    /\ disk' = <<>>
    /\ proc' = [proc EXCEPT ![p].pc = "opened"]
    /\ UNCHANGED <<now, req, resp, before>>

\* variant: the save keeps the records of other keys it finds in the file
WriteMerged(p) ==
    /\ proc[p].pc = "opened"
    /\ \E c \in IF content = "empty" THEN {"whole"} ELSE {"whole", "torn"} :
        /\ content' = c
        /\ disk' = IF c = "whole"
                   THEN proc[p].data
                            \o SelectSeq(disk, LAMBDA s : ~Conflict(proc[p].data, s))
                   ELSE <<>>
    /\ proc' = [proc EXCEPT ![p].pc = "done"]
    /\ UNCHANGED <<now, exists, req, resp, before>>

\* save_data: json.dump and the close of the file, then the handler returns.
\* The text is written from the start of the file.  On the truncated file it
\* is the whole content; over a text that another thread wrote since the
\* file was opened it leaves the tail of a longer text in place, and the
\* file then holds no JSON text
Write(p) ==
    /\ proc[p].pc = "opened"
    /\ \E c \in IF content = "empty" THEN {"whole"} ELSE {"whole", "torn"} :
        /\ content' = c
        /\ disk' = IF c = "whole" THEN proc[p].data ELSE <<>>
    /\ proc' = [proc EXCEPT ![p].pc = "done"]
    /\ UNCHANGED <<now, exists, req, resp, before>>

NextConc ==
    \/ \E p \in Procs, r \in Requests : Load(p, r)
    \/ \E p \in Procs, t \in Clock : Handle(p, t)
    \/ \E p \in Procs : Open(p)
    \/ \E p \in Procs : Write(p)

\* the records an Add and a Soft Delete at instant 0 leave in the file
Recs0 ==
    {NewRecord(store, 0) : store \in StoreLive}
        \cup {[NewRecord(store, 0) EXCEPT !.deletedAt = strftime(0)] : store \in StoreLive}

\* the collections without two records of one key made of them
Stores0 ==
    {<<>>} \cup {<<s>> : s \in Recs0}
        \cup {pair \in Recs0 \X Recs0 : ~SameKey(pair[1], pair[2])}

InitConc ==
    /\ now = 0
    /\ disk \in Stores0
    /\ exists \in IF disk = <<>> THEN BOOLEAN ELSE {TRUE}
    /\ req = [op |-> "none", arg |-> NoArg]
    /\ resp = Ok("none", 0, <<>>)
    /\ before = disk
    /\ content = "whole"
    /\ proc = [p \in Procs |-> Idle]

SpecConc == InitConc /\ [][NextConc]_vars

(***************************************************************************)
(* Vocabulary of the properties                                            *)
(***************************************************************************)
Reads == {"list", "trash", "export"}

\* the collection data holds a record with the key of x
Has(data, x) == \E i \in 1..Len(data) : data[i].name = x.name /\ data[i].region = x.region

\* the record of data with the key of x (there is one)
Rec(data, x) ==
    data[CHOOSE i \in 1..Len(data) : data[i].name = x.name /\ data[i].region = x.region]

\* the record s occurs in data
Member(s, data) == \E i \in 1..Len(data) : data[i] = s

\* deletedAt of s is set, parses, and lies a purge period or more before t
Expired(s, t) ==
    /\ s.deletedAt.kind \notin {"None", "empty"}
    /\ s.deletedAt.kind = "time"
    /\ t - s.deletedAt.v * TicksPerSec >= PURGE_MONTHS * 30 * SecondsPerDay * TicksPerSec

\* the deletion state of the key k in data
Life(data, k) ==
    IF ~Has(data, k) THEN "PURGED"
    ELSE IF Rec(data, k).deletedAt.kind \in {"None", "empty"} THEN "ACTIVE"
    ELSE "TRASHED"

(***************************************************************************)
(* C1: starting from an empty store, no two records of the persisted       *)
(* collection, active or trashed, have the same (name, region) pair.       *)
(***************************************************************************)
C1_UniqueKeys ==
    \A i, j \in 1..Len(disk) :
        i # j => ~(disk[i].name = disk[j].name /\ disk[i].region = disk[j].region)

\* an Add was refused while the collection held two records, one of them trashed
C1_Witness ==
    /\ req.op = "add" /\ resp.code = 400
    /\ Len(disk) = 2
    /\ \E i \in 1..2 : Life(disk, disk[i]) = "TRASHED"

(***************************************************************************)
(* C2: the deletion lifecycle of a record.  A key that was not in the      *)
(* collection is in it after a request only if the request was an Add of   *)
(* that key, and the record is then ACTIVE whatever deletedAt the request  *)
(* carried; ACTIVE becomes TRASHED only by Soft Delete of that key;        *)
(* TRASHED becomes ACTIVE only by Restore of that key; a record leaves     *)
(* the collection only in a read operation and only from TRASHED.          *)
(***************************************************************************)
C2_Lifecycle ==
    /\ \A k \in DeleteReq :
        LET b == Life(before, k)
            a == Life(disk, k)
        IN /\ (b = "PURGED" /\ a # "PURGED")
                 => (req.op = "add" /\ SameKey(req.arg, k) /\ a = "ACTIVE")
           /\ (b = "ACTIVE" /\ a = "TRASHED")
                 => (req.op = "delete" /\ SameKey(req.arg, k))
           /\ (b = "TRASHED" /\ a = "ACTIVE")
                 => (req.op = "restore" /\ SameKey(req.arg, k))
           /\ (b # "PURGED" /\ a = "PURGED")
                 => (req.op \in Reads /\ b = "TRASHED")
    /\ (req.op = "add" /\ resp.code = 200) => Life(disk, req.arg) = "ACTIVE"
    /\ (req.op = "delete" /\ resp.code = 200) => Life(disk, req.arg) = "TRASHED"
    /\ (req.op = "restore" /\ resp.code = 200) => Life(disk, req.arg) = "ACTIVE"

\* a read operation removed a trashed record and left an active one in place
C2_Witness ==
    /\ req.op \in Reads
    /\ \E k \in DeleteReq : Life(before, k) = "TRASHED" /\ Life(disk, k) = "PURGED"
    /\ \E k \in DeleteReq : Life(before, k) = "ACTIVE" /\ Life(disk, k) = "ACTIVE"

(***************************************************************************)
(* C3: after a read operation run at time now, a record that was in the    *)
(* store before the call is absent afterwards if and only if its deletedAt *)
(* is set, parses as a timestamp, and now - deletedAt >= 180 days.         *)
(***************************************************************************)
C3_PurgeExactly ==
    req.op \in Reads =>
        \A i \in 1..Len(before) : ~Member(before[i], disk) <=> Expired(before[i], now)

\* a read dropped a record trashed exactly 180 days before and kept one whose
\* deletedAt does not parse
C3_Witness ==
    /\ req.op \in Reads
    /\ \E i, j \in 1..Len(before) :
        /\ before[i].deletedAt.kind = "text" /\ Member(before[i], disk)
        /\ before[j].deletedAt.kind = "time"
        /\ now - before[j].deletedAt.v * TicksPerSec = PurgeTicks
        /\ ~Member(before[j], disk)

(***************************************************************************)
(* C4: a List that follows a successful Soft Delete does not contain the   *)
(* record and a Trash List that follows it within 180 days contains it; a  *)
(* List that follows a successful Restore contains the record and a Trash  *)
(* List that follows it does not.                                          *)
(***************************************************************************)
C4_DeleteThenRead ==
    (req.op = "delete" /\ resp.code = 200) =>
        /\ req'.op = "list" => ~Has(resp'.items, req.arg)
        /\ (req'.op = "trash" /\ ~Expired(Rec(disk, req.arg), now'))
              => Has(resp'.items, req.arg)

C4_RestoreThenRead ==
    (req.op = "restore" /\ resp.code = 200) =>
        /\ req'.op = "list" => Has(resp'.items, req.arg)
        /\ req'.op = "trash" => ~Has(resp'.items, req.arg)

C4_TrashRoundTrip == [][C4_DeleteThenRead /\ C4_RestoreThenRead]_vars

\* a List shows a record whose deletedAt a Restore cleared, next to one in the trash
C4_Witness ==
    /\ req.op = "list"
    /\ \E i \in 1..Len(before) :
          before[i].deletedAt = None /\ Has(resp.items, before[i])
    /\ \E i \in 1..Len(disk) :
          Life(disk, disk[i]) = "TRASHED" /\ ~Has(resp.items, disk[i])

(***************************************************************************)
(* C5: Add with a (name, region) of a record in the persisted collection   *)
(* fails with 400 and leaves the collection unchanged, whether the record  *)
(* is active, trashed, or trashed for 180 days or more and not yet purged. *)
(***************************************************************************)
C5_DuplicateAdd ==
    (req.op = "add" /\ Has(before, req.arg)) => (resp.code = 400 /\ disk = before)

\* an Add was refused because of a record whose purge period has run out
C5_Witness ==
    /\ req.op = "add" /\ resp.code = 400
    /\ Has(before, req.arg)
    /\ Expired(Rec(before, req.arg), now)

(***************************************************************************)
(* C6: an Add whose (name, region) is not in the store succeeds, and a     *)
(* List issued next includes the record with deletedAt not set and with    *)
(* createdAt non-empty: the request's createdAt when it supplied one, the  *)
(* time of the Add otherwise.                                              *)
(***************************************************************************)
C6_FreshAddSucceeds ==
    (req.op = "add" /\ ~Has(before, req.arg)) =>
        (resp.code = 200 /\ resp.count = Len(before) + 1)

C6_AddThenList ==
    (req.op = "add" /\ resp.code = 200 /\ req'.op = "list") =>
        /\ Has(resp'.items, req.arg)
        /\ LET it == Rec(resp'.items, req.arg)
           IN /\ it.deletedAt.kind \in {"None", "empty"}
              /\ it.createdAt.kind \notin {"None", "empty"}
              /\ it.createdAt = IF req.arg.createdAt.kind \in {"None", "empty"}
                                THEN Time(now \div TicksPerSec)
                                ELSE req.arg.createdAt

C6_AddListed == [](C6_FreshAddSucceeds) /\ [][C6_AddThenList]_vars

\* a List shows a record stamped with the second of the Add, after day 0, next
\* to a record that kept the createdAt of its request
C6_Witness ==
    /\ req.op = "list"
    /\ now >= DayTicks
    /\ \E i, j \in 1..Len(resp.items) :
          /\ resp.items[i].createdAt = Time(now \div TicksPerSec)
          /\ resp.items[j].createdAt = Time(SecondsPerDay)
          /\ i # j

(***************************************************************************)
(* C7 as stated: a successful Update leaves createdAt and deletedAt of the *)
(* record exactly as they were stored before the call.                     *)
(***************************************************************************)
C7_StoredExactly ==
    (req.op = "update" /\ resp.code = 200) =>
        /\ Rec(disk, req.arg).createdAt = Rec(before, req.arg).createdAt
        /\ Rec(disk, req.arg).deletedAt = Rec(before, req.arg).deletedAt

(***************************************************************************)
(* C7 amended: a successful Update leaves createdAt and deletedAt of the   *)
(* record as they were stored, except that a stored null is written back   *)
(* as the empty string; a trashed record stays trashed with the same       *)
(* deletedAt and an active record stays active, whatever the request       *)
(* carries for the two fields.                                             *)
(***************************************************************************)
NullAsEmpty(x) == IF x.kind = "None" THEN Empty ELSE x

C7_PreservedUpToNull ==
    (req.op = "update" /\ resp.code = 200) =>
        /\ Rec(disk, req.arg).createdAt = NullAsEmpty(Rec(before, req.arg).createdAt)
        /\ Rec(disk, req.arg).deletedAt = NullAsEmpty(Rec(before, req.arg).deletedAt)
        /\ Life(disk, req.arg) = Life(before, req.arg)

\* an Update of a trashed record whose request carried another createdAt and
\* another deletedAt
C7_Witness ==
    /\ req.op = "update" /\ resp.code = 200
    /\ Life(before, req.arg) = "TRASHED"
    /\ req.arg.deletedAt.kind = "time"
    /\ req.arg.deletedAt # Rec(before, req.arg).deletedAt
    /\ req.arg.createdAt # Rec(before, req.arg).createdAt
    /\ Rec(disk, req.arg).lat # Rec(before, req.arg).lat

(***************************************************************************)
(* C8: Soft Delete of a key that is not in the store fails with 404; Soft  *)
(* Delete of a trashed record fails with 400 and keeps its deletedAt; in   *)
(* both cases the persisted collection is unchanged.                       *)
(***************************************************************************)
C8_DeleteErrors ==
    req.op = "delete" =>
        /\ ~Has(before, req.arg) => (resp.code = 404 /\ disk = before)
        /\ (Has(before, req.arg) /\ Life(before, req.arg) = "TRASHED")
              => /\ resp.code = 400
                 /\ disk = before
                 /\ Rec(disk, req.arg).deletedAt = Rec(before, req.arg).deletedAt

\* a second Soft Delete was refused a day or more after the first
C8_Witness ==
    /\ req.op = "delete" /\ resp.code = 400
    /\ Rec(disk, req.arg).deletedAt.kind = "time"
    /\ now - Rec(disk, req.arg).deletedAt.v * TicksPerSec >= DayTicks

(***************************************************************************)
(* C9: Restore of a key that is not in the store fails with 404; Restore   *)
(* of a record that is not trashed fails with 400; in both cases the       *)
(* persisted collection is unchanged; a successful Restore clears          *)
(* deletedAt of exactly the targeted record.                               *)
(***************************************************************************)
C9_Restore ==
    req.op = "restore" =>
        /\ ~Has(before, req.arg) => (resp.code = 404 /\ disk = before)
        /\ (Has(before, req.arg) /\ Life(before, req.arg) = "ACTIVE")
              => (resp.code = 400 /\ disk = before)
        /\ (Has(before, req.arg) /\ Life(before, req.arg) = "TRASHED")
              => /\ resp.code = 200
                 /\ Len(disk) = Len(before)
                 /\ \A i \in 1..Len(before) :
                       IF SameKey(before[i], req.arg)
                       THEN disk[i] = [before[i] EXCEPT !.deletedAt = None]
                       ELSE disk[i] = before[i]

\* a Restore of one of two trashed records
C9_Witness ==
    /\ req.op = "restore" /\ resp.code = 200
    /\ Len(before) = 2
    /\ \A i \in 1..2 : Life(before, before[i]) = "TRASHED"
    /\ \E i \in 1..2 : Life(disk, disk[i]) = "TRASHED"

(***************************************************************************)
(* C10 as stated: whenever an operation ends in 400 or 404, the persisted  *)
(* collection after the call equals the one before the call, Export        *)
(* included.                                                               *)
(***************************************************************************)
C10_AllOrNothing ==
    resp.code \in {400, 404} => disk = before

(***************************************************************************)
(* C10 amended: whenever Add, Update, Soft Delete or Restore ends in 400   *)
(* or 404 the persisted collection is unchanged; when Export ends in 404   *)
(* the persisted collection is the one before the call without its expired *)
(* trashed records, the purge having been saved before the failure.        *)
(***************************************************************************)
RECURSIVE Unexpired(_, _)
Unexpired(data, t) ==
    IF data = <<>> THEN <<>>
    ELSE IF Expired(Head(data), t) THEN Unexpired(Tail(data), t)
    ELSE <<Head(data)>> \o Unexpired(Tail(data), t)

C10_ErrorsKeepOrPurge ==
    resp.code \in {400, 404} =>
        IF req.op = "export"
        THEN disk = Unexpired(before, now)
        ELSE req.op \in {"add", "update", "delete", "restore"} /\ disk = before

\* an Export found nothing to export after its purge removed a record
C10_Witness ==
    /\ req.op = "export" /\ resp.code = 404
    /\ Len(disk) < Len(before)

(***************************************************************************)
(* C13: two List calls with no Add, Update, Soft Delete or Restore between *)
(* them return identical output, whatever the time elapsed between the     *)
(* two, also when the second call purges records the first did not.        *)
(***************************************************************************)
C13_ListThenList ==
    (req.op = "list" /\ req'.op = "list") => resp'.items = resp.items

C13_ListTwice == [][C13_ListThenList]_vars

\* a List that purged a trashed record and returned an active one
C13_Witness ==
    /\ req.op = "list"
    /\ resp.items # <<>>
    /\ \E i \in 1..Len(before) : Expired(before[i], now) /\ ~Member(before[i], disk)

(***************************************************************************)
(* C14: purge is idempotent: for every collection and every fixed time,    *)
(* purge applied to the result of purge yields the same collection as a    *)
(* single purge, the same records in the same order.                       *)
(***************************************************************************)
C14_PurgeIdempotent ==
    /\ \A t \in Instants :
          purge_expired(purge_expired(disk, t), t) = purge_expired(disk, t)
    /\ req.op \in Reads =>
          purge_expired(purge_expired(before, now), now) = disk

\* a read dropped a record of the collection and kept a trashed one
C14_Witness ==
    /\ req.op \in Reads
    /\ Len(disk) >= 1
    /\ Len(before) > Len(disk)
    /\ \E i \in 1..Len(disk) : Truthy(disk[i].deletedAt)

(***************************************************************************)
(* C15 as stated: the sequence List returns is ordered by createdAt        *)
(* descending, the sequence Export returns is ordered by createdAt         *)
(* descending, and the sequence Trash List returns is ordered by deletedAt *)
(* descending.                                                             *)
(***************************************************************************)
Descending(items, field) ==
    \A i, j \in 1..Len(items) : i < j => ~StrLess(items[i][field], items[j][field])

C15_ListSorted == req.op = "list" => Descending(resp.items, "createdAt")
C15_ExportSorted == req.op = "export" => Descending(resp.items, "createdAt")
C15_TrashSorted == req.op = "trash" => Descending(resp.items, "deletedAt")

C15_Sorted == C15_ListSorted /\ C15_ExportSorted /\ C15_TrashSorted

(***************************************************************************)
(* C16: a successful Update, Soft Delete or Restore leaves the number of   *)
(* records, the position of every record and every field of every other    *)
(* record unchanged; Soft Delete and Restore change only deletedAt of the  *)
(* targeted record; the purge leaves the retained records unmodified and   *)
(* in their original relative order.                                       *)
(***************************************************************************)
OtherFields == {"name", "region", "lat", "lng", "address", "kakaoOpenChat",
                "phoneNumber", "createdAt"}

C16_Frame ==
    /\ (req.op \in {"update", "delete", "restore"} /\ resp.code = 200) =>
          /\ Len(disk) = Len(before)
          /\ \A i \in 1..Len(before) :
                IF before[i].name = req.arg.name /\ before[i].region = req.arg.region
                THEN /\ disk[i].name = req.arg.name /\ disk[i].region = req.arg.region
                     /\ req.op \in {"delete", "restore"} =>
                           /\ \A f \in OtherFields : disk[i][f] = before[i][f]
                           /\ disk[i].deletedAt # before[i].deletedAt
                ELSE disk[i] = before[i]
    /\ req.op \in Reads => disk = SelectSeq(before, LAMBDA r : Member(r, disk))

\* an Update rewrote the first of two records
C16_Witness ==
    /\ req.op = "update" /\ resp.code = 200
    /\ Len(before) = 2
    /\ before[1].name = req.arg.name /\ before[1].region = req.arg.region
    /\ disk[1] # before[1]
    /\ disk[2] = before[2]

(***************************************************************************)
(* C20: Restore makes no purge and no age check: a trashed record whose    *)
(* deletedAt is 180 days old or more, not yet removed by a read, is        *)
(* restored; an active record is removed by no read; a Soft Delete sets    *)
(* deletedAt to its own time, and a read removes a trashed record only     *)
(* when 180 days have passed since that deletedAt.                         *)
(***************************************************************************)
C20_RestoreAnyAge ==
    /\ (req.op = "restore" /\ Has(before, req.arg)
           /\ Life(before, req.arg) = "TRASHED")
          => (resp.code = 200 /\ Life(disk, req.arg) = "ACTIVE")
    /\ req.op \in Reads =>
          \A i \in 1..Len(before) :
              (Life(before, before[i]) = "ACTIVE" \/ ~Expired(before[i], now))
                  => Member(before[i], disk)
    /\ (req.op = "delete" /\ resp.code = 200) =>
          /\ Rec(disk, req.arg).deletedAt = Time(now \div TicksPerSec)
          /\ ~Expired(Rec(disk, req.arg), now)

\* a Restore of a record trashed a purge period before or more
C20_Witness ==
    /\ req.op = "restore" /\ resp.code = 200
    /\ Expired(Rec(before, req.arg), now)
    /\ Life(disk, req.arg) = "ACTIVE"

(***************************************************************************)
(* C17: when time keeps advancing and read operations keep being called,   *)
(* every record that is soft-deleted with a parseable deletedAt and not    *)
(* restored afterwards is eventually removed from the persisted            *)
(* collection (stated for the deletedAt values whose purge period ends     *)
(* within the instants of the model).                                      *)
(***************************************************************************)
Purgeable(k) ==
    /\ Has(disk, k)
    /\ Rec(disk, k).deletedAt.kind = "time"
    /\ Rec(disk, k).deletedAt.v * TicksPerSec + PurgeTicks <= LastInstant

C17_EventuallyPurged == \A k \in DeleteReq : Purgeable(k) ~> ~Purgeable(k)

\* a read at the last instant removed a record soft-deleted on day 1
C17_Witness ==
    /\ req.op \in Reads
    /\ now = LastInstant
    /\ \E i \in 1..Len(before) :
          /\ before[i].deletedAt = Time(SecondsPerDay)
          /\ ~Has(disk, before[i])

(***************************************************************************)
(* C11: two admin operations whose loads both come before either save can  *)
(* both return success while the persisted collection holds the effect of  *)
(* the one that saved last only.  Last write wins, no merge: after a       *)
(* request has saved, a data file that holds a collection holds exactly    *)
(* the collection one finished request saved.                              *)
(***************************************************************************)
C11_LastWriteWins ==
    (content = "whole" /\ \E p \in Procs : proc[p].pc = "done")
        => \E p \in Procs : proc[p].pc = "done" /\ disk = proc[p].data

\* two Adds of different keys loaded the same collection and both returned
\* success; the file holds the collection of one, without the record of the other
C11_Witness ==
    \E p, q \in Procs :
        /\ p # q
        /\ proc[p].op = "add" /\ proc[p].pc = "done" /\ proc[p].code = 200
        /\ proc[q].op = "add" /\ proc[q].pc = "done" /\ proc[q].code = 200
        /\ proc[p].snap = proc[q].snap
        /\ content = "whole" /\ disk = proc[q].data
        /\ Has(disk, proc[q].arg) /\ ~Has(disk, proc[p].arg)

(***************************************************************************)
(* C12: save overwrites the backing store atomically: a load that runs     *)
(* while another request saves returns the complete collection from before *)
(* the save or the complete collection it wrote, so that no request fails  *)
(* on an empty or partially written file.                                  *)
(***************************************************************************)
C12_AtomicSave == \A p \in Procs : ~(proc[p].pc = "failed" /\ proc[p].code = 500)

(***************************************************************************)
(* C18: a read operation interleaved with an admin write can erase that    *)
(* write.  When a List, Trash List or Export saves, the file becomes the   *)
(* collection it loaded, less the records expired when its purge ran,      *)
(* whatever was saved to the file since it loaded.                         *)
(***************************************************************************)
C18_ReadSaves ==
    \A p \in Procs :
        (/\ proc[p].op \in Reads
         /\ proc[p].pc = "opened" /\ proc'[p].pc = "done"
         /\ content' = "whole")
            => \E t \in Instants : t <= now /\ disk' = Unexpired(proc[p].snap, t)

C18_ReadErasesWrite == [][C18_ReadSaves]_vars

\* an admin operation changed the collection and returned success, a read that
\* had loaded the same collection saved after it, its purge dropping no record:
\* the file holds the collection from before the change
C18_Witness ==
    \E p, q \in Procs :
        /\ proc[p].op \in Reads /\ proc[p].pc = "done" /\ proc[p].data = proc[p].snap
        /\ proc[q].op \in {"add", "update", "delete", "restore"}
        /\ proc[q].pc = "done" /\ proc[q].code = 200
        /\ proc[q].snap = proc[p].snap /\ proc[q].data # proc[q].snap
        /\ content = "whole" /\ disk = proc[p].snap

(***************************************************************************)
(* C19: starting from a store without duplicates, under every interleaving *)
(* of the load and save steps of concurrent requests, no collection saved  *)
(* to the data file holds two records with the same (name, region) pair.   *)
(***************************************************************************)
C19_UniqueUnderRaces ==
    content = "whole" =>
        \A i, j \in 1..Len(disk) :
            (disk[i].name = disk[j].name /\ disk[i].region = disk[j].region) => i = j

\* two concurrent Adds of one key both returned success and the file holds one
\* record of that key
C19_Witness ==
    \E p, q \in Procs :
        /\ p # q
        /\ proc[p].op = "add" /\ proc[p].pc = "done" /\ proc[p].code = 200
        /\ proc[q].op = "add" /\ proc[q].pc = "done" /\ proc[q].code = 200
        /\ proc[p].arg.name = proc[q].arg.name /\ proc[p].arg.region = proc[q].arg.region
        /\ content = "whole"
        /\ Cardinality({i \in 1..Len(disk) : disk[i].name = proc[p].arg.name
                                             /\ disk[i].region = proc[p].arg.region}) = 1

====
